---- MODULE Spec2Model ----
(***************************************************************************)
(* A model of huak's environment engine:                                   *)
(*   - Venv::find, Venv::create, exec_module, install_package and          *)
(*     uninstall_package   (src/src/huak/env/venv.rs)                      *)
(*   - clean-pycache run() (src/src/bin/huak/commands/clean_pycache.rs)    *)
(* Three specifications share the variables: SpecFind (the locator),       *)
(* SpecVenv (creation and dispatch) and SpecClean (the cleanup engine).    *)
(* Each leaves the variables of the other two at their idle values.        *)
(***************************************************************************)
EXTENDS Integers, Sequences, FiniteSets, TLC

VARIABLES
    \* ---- locator ----
    dirs,        \* dirs[d]: the candidate names present in directory d of the chain
    from,        \* the starting directory of find (0 = deepest, ChainTop = "/")
    badDir,      \* the directory of the chain whose probing fails (NoDir: none)
    findPc,      \* "idle" | "done"
    findResult,  \* the value find returned
    probes,      \* the filesystem probes the last find made
    \* ---- venv: creation and dispatch ----
    rootExists,  \* self.path.exists()
    hasParent,   \* self.path.parent() is Some
    hasName,     \* self.name() is Ok
    cwdOk,       \* env::current_dir() is Ok
    pkg,         \* the dependency of the latest install_package call
    bin,         \* the module names present in bin_path()
    stack,       \* the exec_module frames of the call in progress, innermost last
    log,         \* what the call in progress has done so far, in order
    callOp,      \* the top-level operation: "none" | "create" | "exec" | "install" | "uninstall"
    callResult,  \* "none" | "ok" | "err" | "overflow"
    \* ---- clean-pycache ----
    tree0,       \* the working directory's subtree when run() was entered
    tree,        \* tree[e]: what entry e of the working directory is now
    patIdx,      \* index of the delete pattern being processed (1-based)
    walk,        \* the glob matches still to come for the current pattern
    success,     \* run()'s `success`
    fileLevelSuccess, \* run()'s `file_level_success`
    error,       \* run()'s `error`: the cause kept so far
    cleanPc,     \* "start" | "pattern" | "walk" | "done"
    cleanResult, \* the CliResult of run()
    ops          \* the walk entries run() has processed so far, in order

varsFind  == <<dirs, from, badDir, findPc, findResult, probes>>
varsVenv  == <<rootExists, hasParent, hasName, cwdOk, pkg, bin, stack, log, callOp, callResult>>
varsClean == <<tree0, tree, patIdx, walk, success, fileLevelSuccess, error,
               cleanPc, cleanResult, ops>>
vars == <<varsFind, varsVenv, varsClean>>

None == [kind |-> "none"]

(***************************************************************************)
(* The locator                                                             *)
(***************************************************************************)

\* The chain of directories above the deepest one: 0 is the deepest directory,
\* d + 1 is the parent of d, ChainTop is the filesystem root (it has no parent).
ChainTop == 7
\* At most this many candidate entries are placed in the chain.
MaxEntries == 3

DEFUALT_SEARCH_STEPS == 5
DEFAULT_VENV_NAME == ".venv"

Chain == 0..ChainTop

\* `names` of Venv::find, in the order the loop visits them.
\* The candidate names with the bare name preferred.
names_Reversed == <<"venv", DEFAULT_VENV_NAME>>

names == <<DEFAULT_VENV_NAME, "venv">>

NameSet == {names[i] : i \in 1..Len(names)}

PathOf(d, n) == [kind |-> "path", dir |-> d, name |-> n]

\* "No directory of the chain".
NoDir == 0 - 1
\* What a directory whose probing fails holds, besides its entries.
IoError == "<io error>"

\* The filesystem find sees: the entries of each directory of the chain, and
\* the marker in the directory whose probing fails.
FsOf(entries, bad) ==
    [d \in Chain |-> IF d = bad THEN entries[d] \cup {IoError} ELSE entries[d]]

\* utils::path::search_parents_for_filepath(from, name, steps): probes
\* from/name, then the same name in each successive parent, for at most
\* `steps` hops upward; Ok(Some(path)) at the first hit, Ok(None) when there
\* is none, Err when a probe fails.
RECURSIVE search_parents_for_filepath(_, _, _, _)
search_parents_for_filepath(fsys, d, n, steps) ==
    IF IoError \in fsys[d] THEN [kind |-> "error"]
    ELSE IF n \in fsys[d] THEN PathOf(d, n)
    ELSE IF steps = 0 \/ d = ChainTop THEN None
    ELSE search_parents_for_filepath(fsys, d + 1, n, steps - 1)

\* The number of probes that search makes.
RECURSIVE SearchProbes(_, _, _, _)
SearchProbes(fsys, d, n, steps) ==
    IF IoError \in fsys[d] \/ n \in fsys[d] \/ steps = 0 \/ d = ChainTop THEN 1
    ELSE 1 + SearchProbes(fsys, d + 1, n, steps - 1)

\* A loop that propagates the error of a failed parent search (`?`).
RECURSIVE FindFrom_PropagatesError(_, _, _)
FindFrom_PropagatesError(fsys, d, i) ==
    IF i > Len(names)
    THEN [kind |-> "err", msg |-> "could not find venv from", dir |-> d]
    ELSE LET r == search_parents_for_filepath(fsys, d, names[i], DEFUALT_SEARCH_STEPS)
         IN  IF r.kind = "path" THEN [kind |-> "ok", path |-> r]
             ELSE IF r.kind = "error" THEN [kind |-> "err", msg |-> "io error", dir |-> d]
             ELSE FindFrom_PropagatesError(fsys, d, i + 1)

\* A loop that falls back to the default environment of the starting
\* directory when nothing is found.
RECURSIVE FindFrom_DefaultOnMiss(_, _, _)
FindFrom_DefaultOnMiss(fsys, d, i) ==
    IF i > Len(names)
    THEN [kind |-> "ok", path |-> PathOf(d, DEFAULT_VENV_NAME)]
    ELSE LET r == search_parents_for_filepath(fsys, d, names[i], DEFUALT_SEARCH_STEPS)
         IN  IF r.kind = "path" THEN [kind |-> "ok", path |-> r]
             ELSE FindFrom_DefaultOnMiss(fsys, d, i + 1)

\* The loop of Venv::find over `names`, from index i on.
RECURSIVE FindFrom(_, _, _)
FindFrom(fsys, d, i) ==
    IF i > Len(names)
    THEN [kind |-> "err", msg |-> "could not find venv from", dir |-> d]
    ELSE LET r == search_parents_for_filepath(fsys, d, names[i], DEFUALT_SEARCH_STEPS)
         IN  IF r.kind = "path" THEN [kind |-> "ok", path |-> r]
             ELSE FindFrom(fsys, d, i + 1)

\* Venv::find(from)
find(fsys, d) == FindFrom(fsys, d, 1)

\* The probes the loop of Venv::find makes from index i on.
RECURSIVE FindProbes(_, _, _)
FindProbes(fsys, d, i) ==
    IF i > Len(names) THEN 0
    ELSE SearchProbes(fsys, d, names[i], DEFUALT_SEARCH_STEPS)
         + (IF search_parents_for_filepath(fsys, d, names[i], DEFUALT_SEARCH_STEPS).kind = "path"
            THEN 0 ELSE FindProbes(fsys, d, i + 1))

Placements ==
    {f \in [Chain -> SUBSET NameSet] :
        Cardinality({<<d, n>> \in Chain \X NameSet : n \in f[d]}) <= MaxEntries}

\* A find that creates the default environment when it finds none.
Find_CreatesDefault ==
    /\ findPc = "idle"
    /\ findResult' = find(FsOf(dirs, badDir), from)
    /\ probes' = FindProbes(FsOf(dirs, badDir), from, 1)
    /\ findPc' = "done"
    /\ IF findResult'.kind = "err"
       THEN /\ dirs' = [dirs EXCEPT ![from] = @ \cup {DEFAULT_VENV_NAME}]
            /\ rootExists' = TRUE
            /\ bin' = bin \cup {"pip"}
       ELSE UNCHANGED <<dirs, rootExists, bin>>
    /\ UNCHANGED <<from, badDir, hasParent, hasName, cwdOk, pkg, stack, log,
                   callOp, callResult, varsClean>>

Find ==
    /\ findPc = "idle"
    /\ findResult' = find(FsOf(dirs, badDir), from)
    /\ probes' = FindProbes(FsOf(dirs, badDir), from, 1)
    /\ findPc' = "done"
    /\ UNCHANGED <<dirs, from, badDir, varsVenv, varsClean>>

(***************************************************************************)
(* Creation and dispatch                                                   *)
(***************************************************************************)

\* The stack depth at which the process runs out of stack.
MaxDepth == 3

\* The module names the model dispatches; "pip" is the package manager.
Modules == {"pip", "black"}
\* The versions a package descriptor carries ("" = unconstrained).
Versions == {"", "1.2.3"}

Last(s) == s[Len(s)]

\* One entry of `log`. d is the depth of the exec_module frame that acted
\* (0: the top-level operation itself), root is path.exists() when it acted.
Ev(e, d, m, ok, flag, root) ==
    [ev |-> e, d |-> d, m |-> m, ok |-> ok, flag |-> flag, root |-> root]

\* Venv::bin_path().join(module).exists()
module_path_exists(module) == rootExists /\ module \in bin

\* create() without the early return of lines 60-62.
create_NoExistsCheck(base, d, res) ==
    IF ~hasParent \/ ~hasName
    THEN /\ res = "err"
         /\ log' = Append(base, Ev("create", d, "invalid venv path", FALSE, FALSE, rootExists))
         /\ UNCHANGED <<rootExists, bin>>
    ELSE \E exit \in BOOLEAN, partial \in BOOLEAN :
            /\ res = IF exit THEN "ok" ELSE "err"
            /\ log' = Append(base, Ev("create", d, "python", exit, TRUE, rootExists))
            /\ rootExists' = (rootExists \/ exit \/ partial)
            /\ bin' = IF exit THEN bin \cup {"pip"} ELSE bin

\* create() that returns Ok whatever the external command did.
create_SwallowsFailure(base, d, res) ==
    IF rootExists
    THEN /\ res = "ok"
         /\ log' = Append(base, Ev("create", d, "", TRUE, FALSE, TRUE))
         /\ UNCHANGED <<rootExists, bin>>
    ELSE IF ~hasParent
    THEN /\ res = "err"
         /\ log' = Append(base, Ev("create", d, "invalid venv path", FALSE, FALSE, FALSE))
         /\ UNCHANGED <<rootExists, bin>>
    ELSE IF ~hasName
    THEN /\ res = "err"
         /\ log' = Append(base, Ev("create", d, "invalid name", FALSE, FALSE, FALSE))
         /\ UNCHANGED <<rootExists, bin>>
    ELSE \E exit \in BOOLEAN, partial \in BOOLEAN :
            /\ res = "ok"
            /\ log' = Append(base, Ev("create", d, "python", exit, TRUE, FALSE))
            /\ rootExists' = (exit \/ partial)
            /\ bin' = IF exit THEN {"pip"} ELSE {}

\* Venv::create(), appending what it did to `base`. res is what it returns.
\* The create event has flag = "the external command was spawned".
create(base, d, res) ==
    IF rootExists
    THEN /\ res = "ok"
         /\ log' = Append(base, Ev("create", d, "", TRUE, FALSE, TRUE))
         /\ UNCHANGED <<rootExists, bin>>
    ELSE IF ~hasParent
    THEN /\ res = "err"
         /\ log' = Append(base, Ev("create", d, "invalid venv path", FALSE, FALSE, FALSE))
         /\ UNCHANGED <<rootExists, bin>>
    ELSE IF ~hasName
    THEN /\ res = "err"
         /\ log' = Append(base, Ev("create", d, "invalid name", FALSE, FALSE, FALSE))
         /\ UNCHANGED <<rootExists, bin>>
    ELSE \* run_command("python", ["-m", "venv", name], parent)
         \E exit \in BOOLEAN, partial \in BOOLEAN :
            /\ res = IF exit THEN "ok" ELSE "err"
            /\ log' = Append(base, Ev("create", d, "python", exit, TRUE, FALSE))
            /\ rootExists' = (exit \/ partial)
            /\ bin' = IF exit THEN {"pip"} ELSE {}

\* A requirement string that drops the version.
module_str_Unpinned(name, version) == <<name>>

\* `module_str` of install_package: the tokens of the requirement string.
module_str(name, version) ==
    IF version = "" THEN <<name>> ELSE <<name, "==", version>>

Frame(module, args, cwd) ==
    [module |-> module, args |-> args, from |-> cwd, pc |-> "create"]

Idle == stack = <<>>

\* A top-level Venv::create().
CallCreate ==
    /\ Idle
    /\ \E res \in {"ok", "err"} :
          /\ create(<<>>, 0, res)
          /\ callResult' = res
    /\ callOp' = "create"
    /\ UNCHANGED <<hasParent, hasName, cwdOk, pkg, stack, varsFind, varsClean>>

\* A top-level exec_module(module, args, from).
CallExec ==
    /\ Idle
    /\ \E m \in Modules :
          stack' = <<Frame(m, <<"--version">>, "from")>>
    /\ log' = <<>>
    /\ callOp' = "exec"
    /\ callResult' = "none"
    /\ UNCHANGED <<rootExists, hasParent, hasName, cwdOk, pkg, bin, varsFind, varsClean>>

\* install_package(dependency) up to its call of exec_module, called by the
\* frame at depth d (0: called from outside). The install event has ok and
\* flag = "exec_module was called": `env::current_dir()?` returns first
\* when there is no current directory.
install_package(base, d, name, version) ==
    /\ pkg' = [name |-> name, version |-> version]
    /\ IF cwdOk
       THEN /\ log' = Append(base, Ev("install", d, name, TRUE, TRUE, rootExists))
            /\ stack' = Append(IF d = 0 THEN <<>> ELSE [stack EXCEPT ![d].pc = "install"],
                               Frame("pip", <<"install", module_str(name, version)>>, "cwd"))
       ELSE /\ log' = Append(base, Ev("install", d, name, FALSE, FALSE, rootExists))
            /\ stack' = IF d = 0 THEN <<>> ELSE [stack EXCEPT ![d].pc = "err"]

\* A top-level install_package(dependency).
CallInstall ==
    /\ Idle
    /\ \E n \in Modules, v \in Versions : install_package(<<>>, 0, n, v)
    /\ callOp' = "install"
    /\ callResult' = IF cwdOk THEN "none" ELSE "err"
    /\ UNCHANGED <<rootExists, hasParent, hasName, cwdOk, bin, varsFind, varsClean>>

\* A top-level uninstall_package(name).
CallUninstall ==
    /\ Idle
    /\ \E n \in Modules :
          stack' = IF cwdOk THEN <<Frame("pip", <<"uninstall", n, "-y">>, "cwd")>>
                   ELSE <<>>
    /\ log' = <<>>
    /\ callOp' = "uninstall"
    /\ callResult' = IF cwdOk THEN "none" ELSE "err"
    /\ UNCHANGED <<rootExists, hasParent, hasName, cwdOk, pkg, bin, varsFind, varsClean>>

Depth == Len(stack)
Top == stack[Depth]

\* exec_module line 116: self.create()?
ExecCreate ==
    /\ ~Idle /\ Top.pc = "create"
    /\ \E res \in {"ok", "err"} :
          /\ create(log, Depth, res)
          /\ stack' = [stack EXCEPT ![Depth].pc = IF res = "ok" THEN "check" ELSE "err"]
    /\ UNCHANGED <<hasParent, hasName, cwdOk, pkg, callOp, callResult, varsFind, varsClean>>

\* exec_module lines 118-122 when module_path exists: nothing is installed.
ExecPresent ==
    /\ ~Idle /\ Top.pc = "check"
    /\ module_path_exists(Top.module)
    /\ log' = Append(log, Ev("check", Depth, Top.module, TRUE, TRUE, rootExists))
    /\ stack' = [stack EXCEPT ![Depth].pc = "spawn"]
    /\ UNCHANGED <<rootExists, hasParent, hasName, cwdOk, pkg, bin, callOp, callResult, varsFind, varsClean>>

\* exec_module lines 120-121 when module_path does not exist:
\* install_package(PythonPackage::new(module)), which calls exec_module("pip").
ExecInstall ==
    /\ ~Idle /\ Top.pc = "check"
    /\ ~module_path_exists(Top.module)
    /\ (Depth < MaxDepth \/ ~cwdOk)
    /\ install_package(Append(log, Ev("check", Depth, Top.module, TRUE, FALSE, rootExists)),
                       Depth, Top.module, "")
    /\ UNCHANGED <<rootExists, hasParent, hasName, cwdOk, bin, callOp, callResult, varsFind, varsClean>>

\* The same call when no stack is left for the callee: the process aborts.
ExecOverflow ==
    /\ ~Idle /\ Top.pc = "check"
    /\ ~module_path_exists(Top.module)
    /\ Depth = MaxDepth /\ cwdOk
    /\ log' = Append(Append(log, Ev("check", Depth, Top.module, TRUE, FALSE, rootExists)),
                      Ev("install", Depth, Top.module, TRUE, TRUE, rootExists))
    /\ pkg' = [name |-> Top.module, version |-> ""]
    /\ stack' = <<>>
    /\ callResult' = "overflow"
    /\ UNCHANGED <<rootExists, hasParent, hasName, cwdOk, bin, callOp, varsFind, varsClean>>

\* What a successful run of bin/pip with `args` leaves in the executable
\* directory: `install` may or may not put a script named like the package
\* there, `uninstall` removes the package's script.
PipEffect(args, script) ==
    IF args[1] = "install" THEN (IF script THEN bin \cup {args[2][1]} ELSE bin)
    ELSE IF args[1] = "uninstall" THEN bin \ {args[2]}
    ELSE bin

\* exec_module line 126: run_command(module_path, args, from)?
ExecSpawn ==
    /\ ~Idle /\ Top.pc = "spawn"
    /\ \E exit \in BOOLEAN, script \in BOOLEAN :
          LET present == module_path_exists(Top.module)
              ok == present /\ exit
          IN  /\ log' = Append(log, Ev("spawn", Depth, Top.module, ok, present, rootExists))
              /\ stack' = [stack EXCEPT ![Depth].pc = IF ok THEN "ok" ELSE "err"]
              /\ bin' = IF ok /\ Top.module = "pip" THEN PipEffect(Top.args, script) ELSE bin
    /\ UNCHANGED <<rootExists, hasParent, hasName, cwdOk, pkg, callOp, callResult, varsFind, varsClean>>

\* A caller that drops the callee's error.
Propagate_DropsError(res) == "spawn"

\* What the caller of a returning exec_module does with its result: the `?`
\* of install_package line 144 and of exec_module line 121.
Propagate(res) == IF res = "ok" THEN "spawn" ELSE "err"

\* exec_module returns (line 128, or an early `?`).
ExecReturn ==
    /\ ~Idle /\ Top.pc \in {"ok", "err"}
    /\ log' = Append(log, Ev("ret", Depth, Top.module, Top.pc = "ok", TRUE, rootExists))
    /\ IF Depth = 1
       THEN /\ stack' = <<>>
            /\ callResult' = Top.pc
       ELSE /\ stack' = [SubSeq(stack, 1, Depth - 1) EXCEPT ![Depth - 1].pc = Propagate(Top.pc)]
            /\ UNCHANGED callResult
    /\ UNCHANGED <<rootExists, hasParent, hasName, cwdOk, pkg, bin, callOp, varsFind, varsClean>>

(***************************************************************************)
(* clean-pycache                                                           *)
(***************************************************************************)

\* The entries the working directory's subtree may hold:
\*   P1, P2  entries named __pycache__
\*   G1      a .pyc entry inside P1
\*   F1, F2  .pyc entries outside every __pycache__
\*   U       a directory the glob walk cannot read
\* and what each may be:
\*   "absent"     not there
\*   "ok"         of the kind its pattern declares; its removal succeeds
\*   "locked"     of the kind its pattern declares; its removal fails
\*   "wrongkind"  a regular file named __pycache__, or a directory named *.pyc
\*   "unreadable" (U only) read_dir fails on it
PycacheEntries == {"P1", "P2"}
InnerPyc == {"G1"}
OuterPyc == {"F1", "F2"}
PycEntries == InnerPyc \cup OuterPyc
Entries == PycacheEntries \cup PycEntries \cup {"U"}

\* The directory an entry lies in ("." is the working directory itself).
ParentOf(e) == IF e = "G1" THEN "P1" ELSE "."

Trees ==
    {t \in [Entries -> {"absent", "ok", "locked", "wrongkind", "unreadable"}] :
        /\ \A e \in PycacheEntries \cup OuterPyc : t[e] # "unreadable"
        /\ t["U"] \in {"absent", "unreadable"}
        /\ \A e \in InnerPyc :
              /\ t[e] \in {"absent", "ok", "locked"}
              /\ t[e] # "absent" => t[ParentOf(e)] \in {"ok", "locked"}}

\* The table with its two rows exchanged.
get_delete_patterns_Reversed ==
    << [path_type |-> "File",      glob |-> "**/*.pyc"],
       [path_type |-> "Directory", glob |-> "**/__pycache__"] >>

\* get_delete_patterns()
get_delete_patterns ==
    << [path_type |-> "Directory", glob |-> "**/__pycache__"],
       [path_type |-> "File",      glob |-> "**/*.pyc"] >>

\* glob(pattern): Err(PatternError) only for a malformed pattern.
glob_ok(pattern) == pattern \in {"**/__pycache__", "**/*.pyc"}

\* The order in which the glob walk visits the entries.
WalkOrder(pattern) ==
    IF pattern = "**/__pycache__" THEN <<"P1", "U", "P2">>
    ELSE <<"F1", "G1", "U", "F2">>

\* The items the Paths iterator of glob(pattern) yields on tree t: Ok(path) for
\* each entry there whose name matches, Err(GlobError) for each directory it
\* cannot read.
RECURSIVE WalkItems(_, _)
WalkItems(t, order) ==
    IF order = <<>> THEN <<>>
    ELSE LET e == Head(order)
             rest == WalkItems(t, Tail(order))
         IN  IF t[e] = "absent" THEN rest
             ELSE IF t[e] = "unreadable" THEN <<[kind |-> "walkerr", e |-> e]>> \o rest
             ELSE <<[kind |-> "path", e |-> e]>> \o rest

Paths(t, pattern) == WalkItems(t, WalkOrder(pattern))

\* A removal that probes the kind of the path and uses the matching call.
RemoveSucceeds_ProbesKind(t, path_type, e) ==
    IF path_type = "Directory"
    THEN t[e] \in {"ok", "wrongkind"} /\ \A c \in Entries : (ParentOf(c) = e => t[c] # "locked")
    ELSE t[e] \in {"ok", "wrongkind"}

\* Whether remove_dir_all(p) / remove_file(p) succeeds on tree t.
RemoveSucceeds(t, path_type, e) ==
    IF path_type = "Directory"
    THEN t[e] = "ok" /\ \A c \in Entries : (ParentOf(c) = e => t[c] # "locked")
    ELSE t[e] = "ok"

\* The cause (io::Error or GlobError) of a failure on entry e under pattern k.
Cause(what, k, e) == [kind |-> what, pat |-> k, e |-> e]

\* An `error` that keeps the first cause instead.
SetError_KeepFirst(old, new) == IF old = None THEN new ELSE old

\* `error = Some(Error::new(e))` (lines 41, 48, 54)
SetError(old, new) == new

\* One entry of `ops`.
Op(what, k, e, ok) == [kind |-> what, pat |-> k, e |-> e, ok |-> ok]

\* run() lines 24-26.
RunStart ==
    /\ cleanPc = "start"
    /\ success' = TRUE
    /\ error' = None
    /\ patIdx' = 1
    /\ cleanPc' = "pattern"
    /\ UNCHANGED <<tree0, tree, walk, fileLevelSuccess, cleanResult, ops, varsFind, varsVenv>>

Pattern == get_delete_patterns[patIdx]

\* Lines 27-33 with `success` true: the right operand of `success && match ...`
\* is evaluated, so the walk over the pattern's matches begins.
PatternBegin ==
    /\ cleanPc = "pattern" /\ patIdx <= Len(get_delete_patterns)
    /\ success
    /\ IF glob_ok(Pattern.glob)
       THEN /\ fileLevelSuccess' = TRUE
            /\ walk' = Paths(tree, Pattern.glob)
            /\ cleanPc' = "walk"
            /\ UNCHANGED <<success, patIdx>>
       ELSE /\ success' = FALSE
            /\ patIdx' = patIdx + 1
            /\ UNCHANGED <<fileLevelSuccess, walk, cleanPc>>
    /\ UNCHANGED <<tree0, tree, error, cleanResult, ops, varsFind, varsVenv>>

\* Lines 27-30 with `success` false: `&&` does not evaluate its right operand,
\* so the match expression, and the walk inside it, never runs.
PatternSkip ==
    /\ cleanPc = "pattern" /\ patIdx <= Len(get_delete_patterns)
    /\ ~success
    /\ patIdx' = patIdx + 1
    /\ UNCHANGED <<tree0, tree, walk, success, fileLevelSuccess, error, cleanPc,
                   cleanResult, ops, varsFind, varsVenv>>

\* Lines 52-55: the walk yields Err(e).
WalkEntryError ==
    /\ cleanPc = "walk" /\ walk # <<>>
    /\ Head(walk).kind = "walkerr"
    /\ fileLevelSuccess' = FALSE
    /\ error' = SetError(error, Cause("glob", patIdx, Head(walk).e))
    /\ ops' = Append(ops, Op("walkerr", patIdx, Head(walk).e, FALSE))
    /\ walk' = Tail(walk)
    /\ UNCHANGED <<tree0, tree, patIdx, success, cleanPc, cleanResult, varsFind, varsVenv>>

\* Lines 36-38, 44-45: the removal the pattern declares succeeds. A removed
\* directory takes its contents with it.
RemoveOk ==
    /\ cleanPc = "walk" /\ walk # <<>>
    /\ Head(walk).kind = "path"
    /\ LET e == Head(walk).e IN
         /\ RemoveSucceeds(tree, Pattern.path_type, e)
         /\ tree' = [c \in Entries |->
                        IF c = e \/ ParentOf(c) = e THEN "absent" ELSE tree[c]]
         /\ ops' = Append(ops, Op("remove", patIdx, e, TRUE))
    /\ walk' = Tail(walk)
    /\ UNCHANGED <<tree0, patIdx, success, fileLevelSuccess, error, cleanPc,
                   cleanResult, varsFind, varsVenv>>

\* A failed removal that forgets `file_level_success = false`.
RemoveFail_KeepsFlag ==
    /\ cleanPc = "walk" /\ walk # <<>>
    /\ Head(walk).kind = "path"
    /\ LET e == Head(walk).e IN
         /\ ~RemoveSucceeds(tree, get_delete_patterns[patIdx].path_type, e)
         /\ error' = Cause("io", patIdx, e)
         /\ ops' = Append(ops, Op("remove", patIdx, e, FALSE))
    /\ walk' = Tail(walk)
    /\ UNCHANGED <<tree0, tree, patIdx, success, fileLevelSuccess, cleanPc,
                   cleanResult, varsFind, varsVenv>>

\* Lines 39-42, 46-49: the removal fails. A failed remove_dir_all of a
\* directory may already have removed some of its removable contents.
RemoveFail ==
    /\ cleanPc = "walk" /\ walk # <<>>
    /\ Head(walk).kind = "path"
    /\ LET e == Head(walk).e IN
         /\ ~RemoveSucceeds(tree, Pattern.path_type, e)
         /\ \E gone \in SUBSET {c \in Entries : ParentOf(c) = e /\ tree[c] = "ok"} :
               /\ gone # {} => (Pattern.path_type = "Directory" /\ tree[e] # "wrongkind")
               /\ tree' = [c \in Entries |-> IF c \in gone THEN "absent" ELSE tree[c]]
         /\ fileLevelSuccess' = FALSE
         /\ error' = SetError(error, Cause("io", patIdx, e))
         /\ ops' = Append(ops, Op("remove", patIdx, e, FALSE))
    /\ walk' = Tail(walk)
    /\ UNCHANGED <<tree0, patIdx, success, cleanPc, cleanResult, varsFind, varsVenv>>

\* Lines 30-31, 59: `success = success && file_level_success` once the walk
\* is exhausted.
PatternEnd ==
    /\ cleanPc = "walk" /\ walk = <<>>
    /\ success' = (success /\ fileLevelSuccess)
    /\ patIdx' = patIdx + 1
    /\ cleanPc' = "pattern"
    /\ UNCHANGED <<tree0, tree, walk, fileLevelSuccess, error, cleanResult, ops,
                   varsFind, varsVenv>>

\* Lines 67-74.
RunReturn ==
    /\ cleanPc = "pattern" /\ patIdx > Len(get_delete_patterns)
    /\ cleanResult' = IF success THEN [kind |-> "ok"]
                      ELSE [kind |-> "err", error |-> error, exit_code |-> 2]
    /\ cleanPc' = "done"
    /\ UNCHANGED <<tree0, tree, patIdx, walk, success, fileLevelSuccess, error, ops,
                   varsFind, varsVenv>>

(***************************************************************************)
(* The specifications                                                      *)
(***************************************************************************)

IdleFind ==
    /\ dirs = [d \in Chain |-> {}]
    /\ from = 0
    /\ badDir = NoDir
    /\ findPc = "off"
    /\ findResult = None
    /\ probes = 0

IdleVenv ==
    /\ rootExists = FALSE
    /\ hasParent = TRUE
    /\ hasName = TRUE
    /\ cwdOk = TRUE
    /\ pkg = None
    /\ bin = {}
    /\ stack = <<>>
    /\ log = <<>>
    /\ callOp = "off"
    /\ callResult = "none"

IdleClean ==
    /\ tree0 = [e \in Entries |-> "absent"]
    /\ tree = tree0
    /\ patIdx = 0
    /\ walk = <<>>
    /\ success = TRUE
    /\ fileLevelSuccess = TRUE
    /\ error = None
    /\ cleanPc = "off"
    /\ cleanResult = None
    /\ ops = <<>>

InitFind ==
    /\ dirs \in Placements
    /\ from \in Chain
    /\ badDir \in Chain \cup {NoDir}
    /\ findPc = "idle"
    /\ findResult = None
    /\ probes = 0
    /\ IdleVenv /\ IdleClean

NextFind == Find

SpecFind == InitFind /\ [][NextFind]_vars

InitVenv ==
    /\ rootExists \in BOOLEAN
    /\ hasParent \in BOOLEAN
    /\ hasName \in BOOLEAN
    /\ cwdOk \in BOOLEAN
    /\ pkg = None
    /\ bin \in SUBSET Modules
    /\ ~rootExists => bin = {}
    /\ stack = <<>>
    /\ log = <<>>
    /\ callOp = "none"
    /\ callResult = "none"
    /\ IdleFind /\ IdleClean

NextVenv ==
    \/ CallCreate \/ CallExec \/ CallInstall \/ CallUninstall
    \/ ExecCreate \/ ExecPresent \/ ExecInstall \/ ExecOverflow
    \/ ExecSpawn \/ ExecReturn

SpecVenv == InitVenv /\ [][NextVenv]_vars

\* tests::find: Venv::new(directory.join(".venv")).create(), where
\* `directory` is `from`; the root is the entry ".venv" of that directory.
first_venv_create ==
    /\ findPc = "wait"
    /\ \E res \in {"ok", "err"} :
          /\ create(<<>>, 0, res)
          /\ callResult' = res
    /\ callOp' = "create"
    /\ dirs' = [dirs EXCEPT ![from] =
                    IF rootExists' THEN @ \cup {DEFAULT_VENV_NAME} ELSE @]
    /\ findPc' = "idle"
    /\ UNCHANGED <<from, badDir, findResult, probes, hasParent, hasName,
                   cwdOk, pkg, stack, varsClean>>

\* create() on `<from>/.venv`, then Venv::find(from). The root has a parent
\* and a name; it exists exactly when `from` holds an entry ".venv", whatever
\* that entry is. A probe that fails at an ancestor of `from` is never
\* reached once ".venv" is in `from`, so the failing directory is `from` or
\* none.
InitRoundTrip ==
    /\ dirs \in Placements
    /\ from \in Chain
    /\ badDir \in {NoDir, from}
    /\ findPc = "wait"
    /\ findResult = None
    /\ probes = 0
    /\ rootExists = (DEFAULT_VENV_NAME \in dirs[from])
    /\ hasParent = TRUE
    /\ hasName = TRUE
    /\ cwdOk = TRUE
    /\ pkg = None
    /\ bin \in SUBSET Modules
    /\ ~rootExists => bin = {}
    /\ stack = <<>>
    /\ log = <<>>
    /\ callOp = "none"
    /\ callResult = "none"
    /\ IdleClean

NextRoundTrip == first_venv_create \/ Find

SpecRoundTrip == InitRoundTrip /\ [][NextRoundTrip]_vars

InitClean ==
    /\ tree0 \in Trees
    /\ tree = tree0
    /\ patIdx = 0
    /\ walk = <<>>
    /\ success = TRUE
    /\ fileLevelSuccess = TRUE
    /\ error = None
    /\ cleanPc = "start"
    /\ cleanResult = None
    /\ ops = <<>>
    /\ IdleFind /\ IdleVenv

NextClean ==
    \/ RunStart \/ PatternBegin \/ PatternSkip
    \/ WalkEntryError \/ RemoveOk \/ RemoveFail
    \/ PatternEnd \/ RunReturn

SpecClean == InitClean /\ [][NextClean]_vars

(***************************************************************************)
(* The locator: claims                                                     *)
(***************************************************************************)

\* The ancestors of d (d itself included) within the hop bound.
WithinBound(d) == {a \in Chain : d <= a /\ a <= d + DEFUALT_SEARCH_STEPS}

HasCandidate(fsys, d) == \E a \in WithinBound(d) : fsys[a] # {}

\* The nearest directory of the chain from d that holds any candidate name.
Nearest(fsys, d) ==
    CHOOSE a \in WithinBound(d) :
        /\ fsys[a] # {}
        /\ \A b \in WithinBound(d) : fsys[b] # {} => a <= b

NearestCandidate(fsys, d) ==
    LET a == Nearest(fsys, d)
    IN  PathOf(a, IF DEFAULT_VENV_NAME \in fsys[a] THEN DEFAULT_VENV_NAME ELSE "venv")

\* C1: whenever some ancestor within the hop bound holds a candidate name,
\* find returns the candidate of the nearest such ancestor, `.venv` being
\* preferred over `venv` only inside that one directory.
C1_NearestWins ==
    (findPc = "done" /\ badDir = NoDir /\ HasCandidate(dirs, from))
        => findResult = [kind |-> "ok", path |-> NearestCandidate(dirs, from)]

\* C11: find from a directory with no candidate within the hop bound returns
\* the not-found error naming the starting directory after at most
\* Len(names) * (DEFUALT_SEARCH_STEPS + 1) probes, whatever lies beyond the
\* bound and whether or not a parent search failed.
C11_BoundedSearch ==
    (findPc = "done" /\ ~HasCandidate(dirs, from))
        => /\ findResult.kind = "err"
           /\ findResult.msg = "could not find venv from"
           /\ findResult.dir = from
           /\ probes <= Len(names) * (DEFUALT_SEARCH_STEPS + 1)

\* find has failed although a candidate lies beyond the bound.
C11_Witness ==
    /\ findPc = "done" /\ findResult.kind = "err"
    /\ ~HasCandidate(dirs, from)
    /\ \E a \in Chain : a > from + DEFUALT_SEARCH_STEPS /\ dirs[a] # {}

\* C19: whenever find returns Ok, the path it returns is d/n with d the
\* starting directory or an ancestor within the hop bound and n one of the
\* candidate names, and that entry exists.
C19_WellFormedResult ==
    (findPc = "done" /\ findResult.kind = "ok")
        => /\ findResult.path.dir \in WithinBound(from)
           /\ findResult.path.name \in NameSet
           /\ findResult.path.name \in dirs[findResult.path.dir]

\* find has returned a candidate found strictly above the starting directory.
C19_Witness ==
    /\ findPc = "done" /\ findResult.kind = "ok"
    /\ findResult.path.dir > from

(***************************************************************************)
(* clean-pycache: claims                                                   *)
(***************************************************************************)

\* Whether entry e matches the k-th delete pattern.
Matches(k, e) ==
    IF k = 1 THEN e \in PycacheEntries ELSE e \in PycEntries

Attempted(k, e) ==
    \E i \in DOMAIN ops : ops[i].kind = "remove" /\ ops[i].pat = k /\ ops[i].e = e

FailedOps == {i \in DOMAIN ops : ~ops[i].ok}

\* C2: when run() has returned, every entry that matches a delete pattern and
\* is still there had its deletion attempted under that pattern.
C2_NeverShortCircuits ==
    cleanPc = "done"
        => \A k \in DOMAIN get_delete_patterns, e \in Entries :
              (Matches(k, e) /\ tree[e] # "absent") => Attempted(k, e)

\* Every __pycache__ directory of t can be removed, and some .pyc file outside
\* them cannot.
PartialFailureTree(t) ==
    /\ \A p \in PycacheEntries :
          t[p] \in {"ok", "locked"} => RemoveSucceeds(t, "Directory", p)
    /\ \E f \in OuterPyc : t[f] = "locked"

\* C6: on such a tree run() removes every __pycache__ directory, attempts the
\* removal of every .pyc file outside them, returns failure, and leaves every
\* undeletable .pyc file present and every deletable one gone.
C6_PartialFailureCleanup ==
    (cleanPc = "done" /\ PartialFailureTree(tree0))
        => /\ \A p \in PycacheEntries : tree0[p] = "ok" => tree[p] = "absent"
           /\ \A f \in OuterPyc : tree0[f] \in {"ok", "locked"} => Attempted(2, f)
           /\ cleanResult.kind = "err"
           /\ \A f \in PycEntries : tree0[f] = "locked" => tree[f] = "locked"
           /\ \A f \in PycEntries : tree0[f] = "ok" => tree[f] = "absent"

\* C7: run() returns Ok exactly when nothing it did failed; in particular it
\* returns Ok on a tree with no match and nothing unreadable.
C7_AggregateResult ==
    cleanPc = "done"
        => /\ (cleanResult.kind = "ok") <=> (FailedOps = {})
           /\ (\A e \in Entries : tree0[e] = "absent") => cleanResult.kind = "ok"

\* A run in which a failure was followed by a successful removal.
C7_Witness ==
    /\ cleanPc = "done"
    /\ cleanResult.kind = "err"
    /\ \E i, j \in DOMAIN ops : i < j /\ ~ops[i].ok /\ ops[j].ok

\* The cause of a failed entry of `ops`.
CauseOf(op) == Cause(IF op.kind = "walkerr" THEN "glob" ELSE "io", op.pat, op.e)

\* C8: a failing run() returns exit code 2 and the cause of the last failure
\* it observed.
C8_LastCauseSurvives ==
    (cleanPc = "done" /\ cleanResult.kind = "err")
        => /\ cleanResult.exit_code = 2
           /\ FailedOps # {}
           /\ \E i \in FailedOps :
                 /\ \A j \in FailedOps : j <= i
                 /\ cleanResult.error = CauseOf(ops[i])

\* A failing run that observed two failures with different causes.
C8_Witness ==
    /\ cleanPc = "done"
    /\ cleanResult.kind = "err"
    /\ \E i, j \in FailedOps : i < j /\ CauseOf(ops[i]) # CauseOf(ops[j])

\* C17: every removal attempted under the Directory pattern comes before
\* every removal attempted under the File pattern, so no __pycache__ entry is
\* processed after a .pyc entry.
C17_CleanupOrder ==
    \A i, j \in DOMAIN ops :
        (i < j /\ ops[i].kind = "remove" /\ ops[j].kind = "remove")
            => /\ ops[i].pat <= ops[j].pat
               /\ ~(ops[i].e \in PycEntries /\ ops[j].e \in PycacheEntries)

\* A run that attempted a __pycache__ entry and, later, a .pyc entry.
C17_Witness ==
    /\ cleanPc = "done"
    /\ \E i, j \in DOMAIN ops :
          /\ i < j
          /\ ops[i].kind = "remove" /\ ops[i].e \in PycacheEntries
          /\ ops[j].kind = "remove" /\ ops[j].e \in PycEntries

\* C18: an entry whose kind is not the one its pattern declares (a regular
\* file named __pycache__, a directory named *.pyc) gets the declared
\* removal whenever it is matched: the removal fails, the entry stays, and
\* run() reports failure.
C18_KindFromPattern ==
    /\ \A i \in DOMAIN ops :
          (ops[i].kind = "remove" /\ tree0[ops[i].e] = "wrongkind")
              => /\ ~ops[i].ok
                 /\ Matches(ops[i].pat, ops[i].e)
                 /\ tree[ops[i].e] = "wrongkind"
    /\ \A e \in Entries :
          tree0[e] = "wrongkind"
              => /\ tree[e] = "wrongkind"
                 /\ cleanPc = "done" => cleanResult.kind = "err"

\* A run that attempted a regular file named __pycache__ and a directory
\* named *.pyc.
C18_Witness ==
    /\ cleanPc = "done"
    /\ \E i, j \in DOMAIN ops :
          /\ ops[i].kind = "remove" /\ ops[i].e \in PycEntries
          /\ tree0[ops[i].e] = "wrongkind"
          /\ ops[j].kind = "remove" /\ ops[j].e \in PycacheEntries

\* C9: when every .pyc entry of the tree can be removed, none is left once
\* run() has returned.
C9_NoPycLeft ==
    (cleanPc = "done" /\ \A f \in PycEntries : tree0[f] \in {"absent", "ok"})
        => \A f \in PycEntries : tree[f] = "absent"

(***************************************************************************)
(* Creation and dispatch: claims                                           *)
(***************************************************************************)

EventsAt(e, d) == {i \in DOMAIN log : log[i].ev = e /\ log[i].d = d}
Events(e) == {i \in DOMAIN log : log[i].ev = e}

\* C3: a call of exec_module that finds its module absent triggers exactly
\* one install attempt, before the module is spawned; one that finds it
\* present triggers none.
C3_LazyProvisioningCount ==
    callOp = "exec"
        => \A i \in EventsAt("check", 1) :
              IF log[i].flag
              THEN Events("install") = {}
              ELSE /\ Cardinality(Events("install")) = 1
                   /\ \A j \in EventsAt("spawn", 1) :
                         \E k \in Events("install") : k < j

\* The step is install_package calling exec_module.
IsInstallDispatch ==
    /\ log' # log
    /\ log' # <<>>
    /\ Last(log').ev = "install" /\ Last(log').flag
    /\ stack' # <<>>

\* C12: install_package calls exec_module with module "pip", the arguments
\* ["install", S] and the current directory, S being the name alone when the
\* version is empty and name "==" version otherwise.
C12_VersionPinning ==
    [][IsInstallDispatch
          => LET f == Last(stack')
                 S == IF pkg'.version = ""
                      THEN <<pkg'.name>>
                      ELSE <<pkg'.name, "==", pkg'.version>>
             IN  /\ f.module = "pip"
                 /\ f.args = <<"install", S>>
                 /\ f.from = "cwd"
                 /\ f.pc = "create"
                 /\ (pkg'.name = "black" /\ pkg'.version = "1.2.3")
                       => f.args[2] = <<"black", "==", "1.2.3">>]_vars

\* install_package has dispatched a pinned requirement.
C12_Witness ==
    /\ callOp = "install" /\ stack # <<>>
    /\ pkg # None /\ pkg.version = "1.2.3"
    /\ stack[1].args = <<"install", <<pkg.name, "==", "1.2.3">> >>

\* C4: whenever exec_module spawns its executable, the environment root and
\* the executable exist.
C4_ExecutablePresentAtSpawn ==
    \A i \in Events("spawn") : log[i].flag /\ log[i].root

\* The step is a call of create().
IsCreateStep ==
    /\ log' # log
    /\ log' # <<>>
    /\ Last(log').ev = "create"

\* C5: create() on a root that exists returns Ok, does not spawn the external
\* command and leaves the filesystem as it was.
C5_IdempotentCreate ==
    [][(IsCreateStep /\ rootExists)
          => /\ Last(log').ok
             /\ ~Last(log').flag
             /\ rootExists' = rootExists
             /\ bin' = bin]_vars

\* What the create() of this step returned, as its caller saw it.
CreateResult ==
    IF Last(log').d = 0 THEN callResult'
    ELSE IF stack'[Last(log').d].pc = "check" THEN "ok" ELSE "err"

\* C13 as claimed: create() on a root that does not exist returns the
\* invalid-path error without spawning when the root has no parent, and
\* otherwise spawns python once and returns Ok exactly when it succeeded.
C13_CreationErrorOutcomes ==
    [][(IsCreateStep /\ ~rootExists)
          => LET e == Last(log') IN
             IF ~hasParent
             THEN CreateResult = "err" /\ ~e.flag /\ e.m = "invalid venv path"
             ELSE /\ e.flag /\ e.m = "python"
                  /\ (CreateResult = "ok") <=> e.ok]_vars

\* C13 amended: as claimed, except that with a parent but a root whose name
\* cannot be read create() returns that error without spawning.
C13_CreationErrorOutcomesAmended ==
    [][(IsCreateStep /\ ~rootExists)
          => LET e == Last(log') IN
             IF ~hasParent
             THEN CreateResult = "err" /\ ~e.flag /\ e.m = "invalid venv path"
             ELSE IF ~hasName
             THEN CreateResult = "err" /\ ~e.flag /\ e.m = "invalid name"
             ELSE /\ e.flag /\ e.m = "python"
                  /\ (CreateResult = "ok") <=> e.ok]_vars

\* create() has spawned python, which failed, and returned an error.
C13_Witness ==
    /\ callOp = "create" /\ callResult = "err"
    /\ log # <<>>
    /\ Last(log).ev = "create" /\ Last(log).flag /\ ~Last(log).ok
    /\ hasParent /\ hasName

\* create() has returned Ok on a root that existed and did not hold pip.
C5_Witness ==
    /\ log # <<>>
    /\ Last(log).ev = "create" /\ Last(log).root /\ Last(log).ok
    /\ rootExists /\ "pip" \notin bin

\* C10: in every exec_module frame, a failed create() is followed by no
\* install and no spawn, a failed install by no spawn, both end in an error;
\* and the frame returns Ok only after spawning its executable exactly once,
\* after create() returned Ok, with the root existing and a successful exit.
C10_DispatchFailureOrdering ==
    \A d \in 1..MaxDepth :
        /\ \A i \in EventsAt("create", d) :
              ~log[i].ok =>
                 /\ EventsAt("install", d) = {} /\ EventsAt("spawn", d) = {}
                 /\ \A r \in EventsAt("ret", d) : ~log[r].ok
        /\ \A i \in EventsAt("ret", d + 1) \cup EventsAt("install", d) :
              ~log[i].ok =>
                 /\ EventsAt("spawn", d) = {}
                 /\ \A r \in EventsAt("ret", d) : ~log[r].ok
        /\ \A r \in EventsAt("ret", d) :
              log[r].ok =>
                 /\ Cardinality(EventsAt("spawn", d)) = 1
                 /\ \A j \in EventsAt("spawn", d) :
                       /\ log[j].ok /\ log[j].root /\ j < r
                       /\ \E c \in EventsAt("create", d) : log[c].ok /\ c < j
        /\ (d = 1 /\ callResult = "ok" /\ callOp # "create")
              => \E r \in EventsAt("ret", 1) : log[r].ok

C15_FindReadOnly ==
    [][(findPc = "idle" /\ findPc' = "done")
           => UNCHANGED <<dirs, rootExists, bin, log, stack>>]_vars

\* find failed after a failed create(): there is still no environment.
C15_Witness ==
    /\ findPc = "done" /\ findResult.kind = "err"
    /\ callResult = "err"
    /\ ~rootExists /\ DEFAULT_VENV_NAME \notin dirs[from]
    /\ bin = {} /\ Len(log) = 1

\* C16: no call of exec_module, install_package or uninstall_package nests
\* exec_module without bound: the stack is never exhausted, and no
\* exec_module frame is entered again, with the same module and arguments,
\* inside itself.
C16_DispatchTerminates ==
    /\ callResult # "overflow"
    /\ \A i, j \in DOMAIN stack :
          (i < j /\ stack[i].module = stack[j].module) => stack[i].args # stack[j].args

\* An install that failed inside a dispatch that then returned an error.
C10_Witness ==
    /\ callOp = "exec" /\ callResult = "err"
    /\ \E i \in EventsAt("ret", 2) : ~log[i].ok
    /\ \E c \in EventsAt("create", 1) : log[c].ok

====
